---- MODULE Spec2Model ----
(***************************************************************************)
(* sniffTraffic.py: fetch the clone and view series of a repository,       *)
(* merge them by date, append the new dates to traffic_data.csv and render *)
(* main.html.  A behaviour is a sequence of runs of the script; the two    *)
(* files persist between runs, the memory of a run does not.               *)
(***************************************************************************)
EXTENDS Integers, Sequences, FiniteSets, TLC

\* Calendar dates the API may report are 1..MaxDate.
MaxDate == 3

\* Most records one answer of the API holds (the length of its trailing window).
MaxWindow == 2

Dates == 1..MaxDate

\* pandas' missing value: what the outer join puts where one side has no row.
NaN == 0 - 1

\* (count, uniques) pairs of the clone records; zero is a real report.
SampleClones == {<<0, 0>>, <<2, 1>>}

\* (count, uniques) pairs of the view records.
SampleViews == {<<3, 2>>}

\* A record of the API: {"timestamp": "<day>T00:00:00Z", "count": c, "uniques": u}.
ApiRecord(d, cu) ==
    [timestamp |-> [day |-> d, time |-> 0], count |-> cu[1], uniques |-> cu[2]]

Range(s) == {s[i] : i \in 1..Len(s)}

\* The lists a request can answer with: at most one record per day, at most
\* MaxWindow records, in any order.
ApiLists(samples) ==
    UNION {
        {s \in [1..n -> {ApiRecord(d, cu) : d \in Dates, cu \in samples}] :
            \A i, j \in 1..n : i # j => s[i].timestamp.day # s[j].timestamp.day}
        : n \in 0..MaxWindow}

ClonesLists == ApiLists(SampleClones)

ViewsLists == ApiLists(SampleViews)

\* pd.to_datetime(ts).dt.date: the calendar day, time of day dropped.
ToDate(ts) == ts.day

\* df_cl / df_vw restricted to ['date','count','uniques'].
Frame(records) ==
    [i \in 1..Len(records) |->
        [date |-> ToDate(records[i].timestamp),
         count |-> records[i].count,
         uniques |-> records[i].uniques]]

DatesOf(df) == {df[i].date : i \in 1..Len(df)}

\* One row of the renamed join: ['date','clones','clones_uniques','views','views_uniques'].
Row(d, c, cu, v, vu) ==
    [date |-> d, clones |-> c, clones_uniques |-> cu, views |-> v, views_uniques |-> vu]

\* The rows the join produces for one left row: one per matching right row,
\* or one with the right side missing.
JoinLeftInner(l, right) ==
    LET m == SelectSeq(right, LAMBDA r : r.date = l.date)
    IN  [k \in 1..Len(m) |-> Row(l.date, l.count, l.uniques, m[k].count, m[k].uniques)]

JoinLeft(l, right) ==
    LET m == SelectSeq(right, LAMBDA r : r.date = l.date)
    IN  IF m = <<>>
        THEN <<Row(l.date, l.count, l.uniques, NaN, NaN)>>
        ELSE [k \in 1..Len(m) |-> Row(l.date, l.count, l.uniques, m[k].count, m[k].uniques)]

RECURSIVE JoinAllInner(_, _)
JoinAllInner(left, right) ==
    IF left = <<>> THEN <<>>
    ELSE JoinLeftInner(Head(left), right) \o JoinAllInner(Tail(left), right)

RECURSIVE JoinAll(_, _)
JoinAll(left, right) ==
    IF left = <<>> THEN <<>>
    ELSE JoinLeft(Head(left), right) \o JoinAll(Tail(left), right)

\* how='inner': only the dates present on both sides.
MergeInner(left, right) == JoinAllInner(left, right)

\* pd.concat of the two frames in place of a join: a row per record.
MergeStack(left, right) ==
    [k \in 1..Len(left) |-> Row(left[k].date, left[k].count, left[k].uniques, NaN, NaN)]
    \o [k \in 1..Len(right) |-> Row(right[k].date, NaN, NaN, right[k].count, right[k].uniques)]

\* pd.merge(left, right, on='date', how='outer', suffixes=...).
MergeOuter(left, right) ==
    LET rightOnly == SelectSeq(right, LAMBDA r : r.date \notin DatesOf(left))
    IN  JoinAll(left, right)
        \o [k \in 1..Len(rightOnly) |->
               Row(rightOnly[k].date, NaN, NaN, rightOnly[k].count, rightOnly[k].uniques)]

\* Insert a row after the rows whose date is not greater (a stable sort step).
RECURSIVE Insert(_, _)
Insert(row, sorted) ==
    IF sorted = <<>> THEN <<row>>
    ELSE IF row.date < Head(sorted).date THEN <<row>> \o sorted
    ELSE <<Head(sorted)>> \o Insert(row, Tail(sorted))

RECURSIVE SortFrom(_, _)
SortFrom(df, acc) ==
    IF df = <<>> THEN acc ELSE SortFrom(Tail(df), Insert(Head(df), acc))

\* The sort left out.
NoSort(df) == df

\* DataFrame.sort_values('date').
sort_values(df) == SortFrom(df, <<>>)

\* df_new: the outer join of the two frames, sorted by date (lines 68-77).
BuildNew(clones, views) == sort_values(MergeOuter(Frame(clones), Frame(views)))

\* Column order of the persisted file (line 77 names the columns, to_csv writes them).
Header == <<"date", "clones", "clones_uniques", "views", "views_uniques">>

\* A cell of the file is its text: empty for a missing value, else the value written.
\* Zero written like a missing value.
FormatCellZeroBlank(x) == IF x = NaN \/ x = 0 THEN <<>> ELSE <<x>>

FormatCell(x) == IF x = NaN THEN <<>> ELSE <<x>>

\* An empty cell read as zero (a fillna(0) on load).
ParseCellZero(c) == IF c = <<>> THEN 0 ELSE c[1]

ParseCell(c) == IF c = <<>> THEN NaN ELSE c[1]

\* os.path.exists(CSV_FILE) (line 79).
exists(file) == file.exists

\* A line the script prints; n is the number it shows, if any.
Line(text, n) == [text |-> text, n |-> n]

\* The state of traffic_data.csv when it does not exist.
NoFile == [exists |-> FALSE, header |-> <<>>, rows |-> <<>>]

\* DataFrame.to_csv(CSV_FILE, index=False): the header, then one line per row.
to_csv(df) ==
    [exists |-> TRUE,
     header |-> Header,
     rows   |-> [i \in 1..Len(df) |->
                   <<FormatCell(df[i].date), FormatCell(df[i].clones),
                     FormatCell(df[i].clones_uniques), FormatCell(df[i].views),
                     FormatCell(df[i].views_uniques)>>]]

Col(file, name) == CHOOSE i \in 1..Len(file.header) : file.header[i] = name

\* pd.read_csv(CSV_FILE, parse_dates=['date']) followed by .dt.date (lines 80-81).
read_csv(file) ==
    [i \in 1..Len(file.rows) |->
        Row(ParseCell(file.rows[i][Col(file, "date")]),
            ParseCell(file.rows[i][Col(file, "clones")]),
            ParseCell(file.rows[i][Col(file, "clones_uniques")]),
            ParseCell(file.rows[i][Col(file, "views")]),
            ParseCell(file.rows[i][Col(file, "views_uniques")]))]

\* The mask dropped: every fetched row is appended.
AppendAll(df_new, df_exist) == df_new

\* df_new[~df_new['date'].isin(df_exist['date'])] (lines 82-83).
NotIn(df_new, df_exist) ==
    SelectSeq(df_new, LAMBDA r : r.date \notin DatesOf(df_exist))

\* The existing rows left out of the concatenation.
ConcatDropExisting(df_exist, df_append) == df_append

\* pd.concat([df_exist, df_append], ignore_index=True) (line 85).
Concat(df_exist, df_append) == df_exist \o df_append

\* df_updated of the append branch (lines 85-86).
Updated(df_exist, df_append) == sort_values(Concat(df_exist, df_append))

\* The result of lines 79-95 on a file and a new-data table: the file left,
\* the table returned (df_updated), the read_csv and to_csv calls made and
\* the line printed.
UpdateCsv(file, new) ==
    IF exists(file)
    THEN LET df_exist  == read_csv(file)
             df_append == NotIn(new, df_exist)
         IN  IF df_append # <<>>
             THEN LET df_updated == Updated(df_exist, df_append)
                  IN  [branch |-> "appended", file |-> to_csv(df_updated),
                       df |-> df_updated, reads |-> 1, writes |-> 1,
                       out |-> Line("Ajout de n nouvelles lignes au CSV", Len(df_append))]
             ELSE [branch |-> "unchanged", file |-> file,
                   df |-> df_exist, reads |-> 1, writes |-> 0,
                   out |-> Line("Aucune nouvelle donnee a ajouter au CSV.", 0)]
    ELSE [branch |-> "created", file |-> to_csv(new),
          df |-> new, reads |-> 0, writes |-> 1,
          out |-> Line("CSV cree avec n lignes", Len(new))]

\* What popular/referrers answers with.
SampleReferrers == {<<[referrer |-> "github.com", count |-> 2, uniques |-> 1]>>}

\* len(sys.argv) of a launch: the script name plus one, two or three arguments.
ArgCounts == {2, 3, 4}

\* GITHUB_TOKEN of a launch: unset (or empty), or a token.
Tokens == {"", "ghp_token"}

VARIABLES
    csv_file,      \* traffic_data.csv
    html_file,     \* main.html: <<>> or the one document written last
    pc,            \* "idle" between runs, else the place of the running script
    argc,          \* len(sys.argv) of the run
    token,         \* main's token: os.getenv('GITHUB_TOKEN'), "" for None or unread
    clones,        \* fetch_and_update_csv's clones (line 65)
    views,         \* fetch_and_update_csv's views (line 66)
    df_new,        \* fetch_and_update_csv's df_new (line 77)
    df,            \* main's df, the table fetch_and_update_csv returned
    df_ref,        \* main's df_ref
    exit_status,   \* exit status of the run once pc = "exited"
    stdout,        \* the lines the run printed
    failed,        \* what raised in this run, or "none"
    requests,      \* requests.get calls of the run
    csv_reads,     \* read_csv calls of the run
    csv_writes,    \* to_csv calls of the run
    html_writes,   \* writes of main.html in the run
    csv_at_start,  \* csv_file as the run found it
    html_at_start  \* html_file as the run found it

vars == <<csv_file, html_file, pc, argc, token, clones, views, df_new, df, df_ref,
          exit_status, stdout, failed, requests, csv_reads, csv_writes,
          html_writes, csv_at_start, html_at_start>>

files == <<csv_file, html_file>>
fetched == <<clones, views, df_new>>
locals == <<clones, views, df_new, df, df_ref>>
counters == <<requests, csv_reads, csv_writes, html_writes>>
history == <<csv_at_start, html_at_start>>

Init ==
    /\ csv_file = NoFile
    /\ html_file = <<>>
    /\ pc = "idle"
    /\ argc = 3
    /\ token = ""
    /\ clones = <<>>
    /\ views = <<>>
    /\ df_new = <<>>
    /\ df = <<>>
    /\ df_ref = <<>>
    /\ exit_status = 0
    /\ stdout = <<>>
    /\ failed = "none"
    /\ requests = 0
    /\ csv_reads = 0
    /\ csv_writes = 0
    /\ html_writes = 0
    /\ csv_at_start = NoFile
    /\ html_at_start = <<>>

\* len(sys.argv) != 3 (line 170).
WrongArgCount(n) == n # 3

\* The token check left out.
NeverMissing(t) == FALSE

\* not token (line 175): None and the empty string alike.
TokenMissing(t) == t = ""

\* sys.exit(status), or an exception that ends the script (status 1).
Exits(status) ==
    /\ pc' = "exited"
    /\ exit_status' = status

\* Lines 170-172: wrong argument count; the environment is not read.
UsageError ==
    \E n \in ArgCounts :
        /\ pc = "idle"
        /\ WrongArgCount(n)
        /\ argc' = n
        /\ stdout' = <<Line("Usage: python get_traffic_dashboard.py <owner> <repo>", 0)>>
        /\ Exits(1)
        /\ UNCHANGED <<files, token, locals, failed, counters, history>>

\* Lines 173-177: GITHUB_TOKEN unset or empty.
MissingToken ==
    \E n \in ArgCounts, t \in Tokens :
        /\ pc = "idle"
        /\ ~WrongArgCount(n)
        /\ TokenMissing(t)
        /\ argc' = n
        /\ token' = t
        /\ stdout' = <<Line("Erreur: definir GITHUB_TOKEN", 0)>>
        /\ Exits(1)
        /\ UNCHANGED <<files, locals, failed, counters, history>>

\* Lines 170-177 passed: main goes on to fetch_and_update_csv (line 178).
MainStart ==
    \E n \in ArgCounts, t \in Tokens :
        /\ pc = "idle"
        /\ ~WrongArgCount(n)
        /\ ~TokenMissing(t)
        /\ argc' = n
        /\ token' = t
        /\ pc' = "fetch_and_update_csv"
        /\ UNCHANGED <<files, locals, exit_status, stdout, failed, counters, history>>

\* Line 65: the clones request raises (raise_for_status, line 60).
ClonesRequestFails ==
    /\ pc = "fetch_and_update_csv"
    /\ requests' = requests + 1
    /\ failed' = "clones"
    /\ Exits(1)
    /\ UNCHANGED <<files, argc, token, locals, stdout,
                   csv_reads, csv_writes, html_writes, history>>

\* Line 66: the clones request is answered, the views request raises.
ViewsRequestFails ==
    /\ pc = "fetch_and_update_csv"
    /\ \E c \in ClonesLists : clones' = c
    /\ requests' = requests + 2
    /\ failed' = "views"
    /\ Exits(1)
    /\ UNCHANGED <<files, argc, token, views, df_new, df, df_ref, stdout,
                   csv_reads, csv_writes, html_writes, history>>

\* pd.DataFrame([]) has no column: df['timestamp'] raises KeyError (lines 70-71).
NoTimestampColumn(records) == records = <<>>

\* Lines 65-71: both requests are answered and one of the lists is empty.
EmptyFrameKeyError ==
    /\ pc = "fetch_and_update_csv"
    /\ \E c \in ClonesLists, v \in ViewsLists :
          /\ NoTimestampColumn(c) \/ NoTimestampColumn(v)
          /\ clones' = c
          /\ views' = v
    /\ requests' = requests + 2
    /\ failed' = "KeyError"
    /\ Exits(1)
    /\ UNCHANGED <<files, argc, token, df_new, df, df_ref, stdout,
                   csv_reads, csv_writes, html_writes, history>>

\* Lines 65-97 with both requests answered and neither list empty, taking the
\* given branch of lines 79-95; the function returns df_updated into main's df.
FetchAndUpdate(branch) ==
    /\ pc = "fetch_and_update_csv"
    /\ \E c \in ClonesLists, v \in ViewsLists :
          /\ ~NoTimestampColumn(c)
          /\ ~NoTimestampColumn(v)
          /\ LET new == BuildNew(c, v)
                 r   == UpdateCsv(csv_file, new)
             IN  /\ r.branch = branch
                 /\ clones' = c
                 /\ views' = v
                 /\ df_new' = new
                 /\ csv_file' = r.file
                 /\ df' = r.df
                 /\ csv_reads' = csv_reads + r.reads
                 /\ csv_writes' = csv_writes + r.writes
                 /\ stdout' = Append(stdout, r.out)
    /\ requests' = requests + 2
    /\ pc' = "fetch_referrers"
    /\ UNCHANGED <<html_file, argc, token, df_ref, exit_status, failed,
                   html_writes, history>>

\* Lines 92-95: no file yet, df_new becomes the file.
CsvCreated ==
    /\ ~exists(csv_file)
    /\ FetchAndUpdate("created")

\* Lines 80-88: some fetched dates are not in the file.
CsvAppended ==
    /\ exists(csv_file)
    /\ FetchAndUpdate("appended")

\* Lines 80-83, 89-91: every fetched date is in the file already.
CsvUnchanged ==
    /\ exists(csv_file)
    /\ FetchAndUpdate("unchanged")

\* The frame of fetch_and_update_csv is gone once main moves on.
FrameDropped ==
    /\ clones' = <<>>
    /\ views' = <<>>
    /\ df_new' = <<>>

\* Line 179, the request raises.
ReferrersRequestFails ==
    /\ pc = "fetch_referrers"
    /\ FrameDropped
    /\ requests' = requests + 1
    /\ failed' = "referrers"
    /\ Exits(1)
    /\ UNCHANGED <<files, argc, token, df, df_ref, stdout,
                   csv_reads, csv_writes, html_writes, history>>

\* Lines 100-102, 179.
fetch_referrers ==
    /\ pc = "fetch_referrers"
    /\ FrameDropped
    /\ requests' = requests + 1
    /\ \E refs \in SampleReferrers : df_ref' = refs
    /\ pc' = "build_dashboard"
    /\ UNCHANGED <<files, argc, token, df, exit_status,
                   stdout, failed, csv_reads, csv_writes, html_writes, history>>

\* Lines 105-166, 180-182: main.html is written with the tables of df and df_ref.
build_dashboard ==
    /\ pc = "build_dashboard"
    /\ html_file' = <<[df |-> df, df_ref |-> df_ref]>>
    /\ html_writes' = html_writes + 1
    /\ stdout' = Append(stdout, Line("Dashboard HTML genere : main.html", 0))
    /\ Exits(0)
    /\ UNCHANGED <<csv_file, argc, token, locals, failed,
                   requests, csv_reads, csv_writes, history>>

\* The process is gone: its memory with it, the files stay.
ProcessEnds ==
    /\ pc = "exited"
    /\ pc' = "idle"
    /\ argc' = 3
    /\ token' = ""
    /\ FrameDropped
    /\ df' = <<>>
    /\ df_ref' = <<>>
    /\ exit_status' = 0
    /\ stdout' = <<>>
    /\ failed' = "none"
    /\ requests' = 0
    /\ csv_reads' = 0
    /\ csv_writes' = 0
    /\ html_writes' = 0
    /\ csv_at_start' = csv_file
    /\ html_at_start' = html_file
    /\ UNCHANGED files

Next ==
    \/ UsageError
    \/ MissingToken
    \/ MainStart
    \/ ClonesRequestFails
    \/ ViewsRequestFails
    \/ EmptyFrameKeyError
    \/ CsvCreated
    \/ CsvAppended
    \/ CsvUnchanged
    \/ ReferrersRequestFails
    \/ fetch_referrers
    \/ build_dashboard
    \/ ProcessEnds

Spec == Init /\ [][Next]_vars

(***************************************************************************)
(* Properties.  They read the text of the file, not the model's parser.    *)
(***************************************************************************)

\* The date written on line i of a file.
FileDate(file, i) == file.rows[i][1][1]

FileDates(file) == {FileDate(file, i) : i \in 1..Len(file.rows)}

\* The text line a row of a table stands for: date, clones, clones_uniques,
\* views, views_uniques, a missing value as the empty text.
CellText(x) == IF x = NaN THEN <<>> ELSE <<x>>

LineOf(r) ==
    <<CellText(r.date), CellText(r.clones), CellText(r.clones_uniques),
      CellText(r.views), CellText(r.views_uniques)>>

\* fetch_and_update_csv has just returned: its lists and df_new are at hand.
Returned == pc = "fetch_referrers"

\* main holds the table fetch_and_update_csv returned.
AfterReturn ==
    \/ pc \in {"fetch_referrers", "build_dashboard"}
    \/ pc = "exited" /\ (failed = "referrers" \/ exit_status = 0)

DaysOf(records) == {records[i].timestamp.day : i \in 1..Len(records)}

RecordOf(records, d) ==
    records[CHOOSE i \in 1..Len(records) : records[i].timestamp.day = d]

\* C1: on the file a merge has left, the merge of the same two lists takes the
\* branch that appends nothing: the file stays as it is and is not written.
C1_Idempotent ==
    Returned =>
        LET again == UpdateCsv(csv_file, BuildNew(clones, views))
        IN  /\ again.file = csv_file
            /\ again.writes = 0
            /\ again.df = df

\* The merge that left the file appended to an older one.
C1_Witness ==
    /\ Returned
    /\ csv_at_start.exists
    /\ csv_writes = 1
    /\ Len(csv_file.rows) = MaxDate

\* C2: no step of any run removes a date from the persisted file.
C2_AppendOnly ==
    [][/\ csv_file.exists => csv_file'.exists
       /\ FileDates(csv_file) \subseteq FileDates(csv_file')]_vars

\* A run appended a date while the file held a date the fetch no longer has.
C2_Witness ==
    /\ Returned
    /\ csv_at_start.exists
    /\ csv_writes = 1
    /\ FileDates(csv_at_start) \ DatesOf(df_new) # {}

\* C3: when the file exists, the lines after the merge are the lines before it,
\* unchanged, plus one line for each row of the new-data table whose date was
\* not in the file, and nothing else.
C3_AppendsExactlyNew ==
    (Returned /\ csv_at_start.exists) =>
        LET old   == Range(csv_at_start.rows)
            fresh == {LineOf(df_new[i]) : i \in {k \in 1..Len(df_new) :
                          df_new[k].date \notin FileDates(csv_at_start)}}
        IN  /\ Range(csv_file.rows) = old \cup fresh
            /\ Len(csv_file.rows) = Cardinality(old) + Cardinality(fresh)

\* Lines were appended although, for a date kept, the fetch reports other
\* clone counts and a view count where the file has none.
C3_Witness ==
    /\ Returned
    /\ csv_writes = 1
    /\ \E i \in 1..Len(df_new), k \in 1..Len(csv_at_start.rows) :
          /\ FileDate(csv_at_start, k) = df_new[i].date
          /\ csv_at_start.rows[k][4] = <<>>
          /\ df_new[i].views # NaN
          /\ csv_at_start.rows[k][2] # <<>>
          /\ csv_at_start.rows[k][2] # CellText(df_new[i].clones)

C5_Sorted ==
    \A i \in 1..Len(csv_file.rows) - 1 :
        FileDate(csv_file, i) < FileDate(csv_file, i + 1)

\* A run appended a date that lies between two dates the file had, from a
\* list that came latest day first.
C5_Witness ==
    /\ Returned
    /\ csv_writes = 1
    /\ Len(clones) = 2
    /\ clones[1].timestamp.day > clones[2].timestamp.day
    /\ \E d \in FileDates(csv_file) \ FileDates(csv_at_start) :
          \E e, f \in FileDates(csv_at_start) : e < d /\ d < f

C7_EmptyFetchIsNoOp ==
    (/\ pc # "idle"
     /\ requests = 2
     /\ failed # "views"
     /\ clones = <<>>
     /\ views = <<>>) =>
        /\ ~(pc = "exited" /\ exit_status # 0)
        /\ csv_file = csv_at_start
        /\ \E i \in 1..Len(stdout) :
              stdout[i].text = "Aucune nouvelle donnee a ajouter au CSV."

\* C8: a run that has ended either completed (status 0, report written) or
\* left both files as it found them; a run in which a request failed left the
\* persisted file as it found it and wrote no report.
C8_AllOrNothing ==
    pc = "exited" =>
        /\ \/ exit_status = 0 /\ html_writes = 1
           \/ csv_file = csv_at_start /\ html_file = html_at_start
        /\ failed \in {"clones", "views", "referrers"} =>
              (csv_file = csv_at_start /\ html_writes = 0)

\* C9: a run launched with a wrong argument count or without a token has
\* exited with a non-zero status, having issued no request and neither read
\* nor written either file.
C9_BadLaunchDoesNothing ==
    (pc # "idle" /\ (argc # 3 \/ token = "")) =>
        /\ pc = "exited"
        /\ exit_status # 0
        /\ requests = 0
        /\ csv_reads = 0
        /\ csv_writes = 0
        /\ html_writes = 0
        /\ csv_file = csv_at_start
        /\ html_file = html_at_start

\* The token is missing and there are files the run could have touched.
C9_Witness ==
    /\ pc = "exited"
    /\ argc = 3
    /\ token = ""
    /\ exit_status = 1
    /\ csv_file.exists
    /\ html_file # <<>>

\* C10: the table fetch_and_update_csv returns has the rows of the persisted
\* file, in the file's order, in each of its three branches; it is the table
\* the report is rendered from; and a run reads the file at most once and
\* writes it at most once.
C10_ReturnedIsPersisted ==
    /\ csv_reads <= 1
    /\ csv_writes <= 1
    /\ AfterReturn =>
          /\ csv_file.exists
          /\ csv_file.rows = [i \in 1..Len(df) |-> LineOf(df[i])]
    /\ (pc = "exited" /\ exit_status = 0) => html_file = <<[df |-> df, df_ref |-> df_ref]>>

\* The append branch returned a table with a reported zero and a missing value.
C10_Witness ==
    /\ pc = "exited"
    /\ exit_status = 0
    /\ csv_reads = 1
    /\ csv_writes = 1
    /\ \E i \in 1..Len(df) : df[i].clones = 0 /\ df[i].views = NaN

====
